---- MODULE Spec2Model ----
(***************************************************************************)
(* Model of the debuggee of src/debuggee/rust/src/main.rs: one `main` that *)
(* reads argv[1] and dispatches to one canned behaviour.  A process of the *)
(* model is one execution of `main`; the `spawn` branch creates a second   *)
(* process running the same `main`.  Each action is one statement of       *)
(* `main` executed by one process, so that statements of a parent and its  *)
(* child interleave as the operating system may interleave them.           *)
(*                                                                         *)
(* Modelled outcomes of the environment: every `Result` the source unwraps *)
(* (current_exe, spawn, wait, flush) may be Ok or Err.  The print macros   *)
(* return no Result in the source and are modelled as writes that succeed. *)
(* Integer overflow of `i += 1` panics in a build with overflow checks     *)
(* and wraps in a build without them; both builds are modelled.            *)
(***************************************************************************)
EXTENDS Integers, Sequences, FiniteSets, TLC

\* ---------------------------------------------------------------- bounds
\* Number of process slots the operating system offers to one invocation.
MaxProcs == 3
\* Width of the loop counter.  The source declares i64; the width is reduced
\* so that the overflow of `i += 1` is reached from i = 0.
CounterBits == 3

Pids == 1..MaxProcs
Root == 1
NoPid == 0

\* -------------------------------------------------------------- constants
\* Exit status of a Rust process whose main thread panicked.
PanicStatus == 101

IntMax == 2^(CounterBits - 1) - 1
IntMin == -(2^(CounterBits - 1))
\* The loop never ends; iterations beyond this many are not explored.
MaxWrites == 2^(CounterBits - 1) + 2

\* env::args().nth(1): None, or Some(string).
NoArg == "<none>"
Testcases == {"stdio", "panic", "spawn", "sleep", "inf_loop", "Stdio", "vars"}
Argv1 == Testcases \cup {NoArg}

\* ------------------------------------------------------------- pure parts
\* Mutant: the argument is matched without regard to case.
Branch_IgnoreCase(a) ==
    CASE a = NoArg                 -> "none"
      [] a \in {"stdio", "Stdio"}  -> "stdio"
      [] a = "panic"               -> "panic"
      [] a = "spawn"               -> "spawn"
      [] a = "sleep"               -> "sleep"
      [] a = "inf_loop"            -> "inf_loop"
      [] OTHER                     -> "default"

\* The match of lines 6-49: the arm an argument selects.
Branch(a) ==
    CASE a = NoArg      -> "none"
      [] a = "stdio"    -> "stdio"
      [] a = "panic"    -> "panic"
      [] a = "spawn"    -> "spawn"
      [] a = "sleep"    -> "sleep"
      [] a = "inf_loop" -> "inf_loop"
      [] OTHER          -> "default"

\* The first statement of each arm.
Entry(b) ==
    CASE b = "none"     -> "l46"
      [] b = "stdio"    -> "l8"
      [] b = "panic"    -> "l12"
      [] b = "spawn"    -> "l15"
      [] b = "sleep"    -> "l23"
      [] b = "inf_loop" -> "l26"
      [] OTHER          -> "primitives"

\* The calls of the default arm, lines 35-43, in source order.
Exercises ==
    <<"primitives", "enums", "structs", "arrays", "boxes",
      "strings", "maps", "misc", "step_in">>

\* The bodies of the exercises are in the library crate: each builds values
\* and returns.
ExerciseReturns(name) == TRUE

\* Mutant: the child is started with the parent's own testcase.
SpawnArg_Spawn == "spawn"

\* command.arg("sleep"), line 17: argv[1] of the child.
SpawnArg == "sleep"

\* std::process::exit(-1), line 47.
NoTestcaseExit == -1

\* The status the parent of a process observes: the low 8 bits.
ExitStatus(c) == c % 256

\* i64 `+ 1` in a build without overflow checks (two's complement wrap).
WrapInc(v) == ((v + 1 - IntMin) % (2^CounterBits)) + IntMin

\* What is written to a stream.
Line(text)   == [kind |-> "line", text |-> text, val |-> 0]
PidLine(c)   == [kind |-> "line", text |-> "pid = ", val |-> c]
Counter(v)   == [kind |-> "counter", text |-> "<CR>", val |-> v]

\* ------------------------------------------------------------------ state
VARIABLES
    arg,            \* arg[p]: argv[1] of process p
    pc,             \* pc[p]: the statement p executes next
    status,         \* "unborn", "running", "exited" or "panicked"
    code,           \* exit status of a terminated process
    out,            \* what reached standard output
    buf,            \* what stdout's line buffer holds, not yet flushed
    err,            \* what reached standard error
    i,              \* the counter of the inf_loop arm
    child,          \* the Child handle of the spawn arm (NoPid: none)
    ppid,           \* the process that spawned p (NoPid: the invocation)
    fault,          \* which fallible call returned Err, if any
    trace,          \* the statements p has executed, in order
    overflowChecks  \* whether the build checks integer overflow

vars == <<arg, pc, status, code, out, buf, err, i, child, ppid, fault, trace,
          overflowChecks>>

Init ==
    /\ arg \in {f \in [Pids -> Argv1] : \A p \in Pids \ {Root} : f[p] = NoArg}
    /\ pc = [p \in Pids |-> "main"]
    /\ status = [p \in Pids |-> IF p = Root THEN "running" ELSE "unborn"]
    /\ code = [p \in Pids |-> 0]
    /\ out = [p \in Pids |-> <<>>]
    /\ buf = [p \in Pids |-> <<>>]
    /\ err = [p \in Pids |-> <<>>]
    /\ i = [p \in Pids |-> 0]
    /\ child = [p \in Pids |-> NoPid]
    /\ ppid = [p \in Pids |-> NoPid]
    /\ fault = [p \in Pids |-> "none"]
    /\ trace = [p \in Pids |-> <<>>]
    /\ overflowChecks \in BOOLEAN

At(p, l) == status[p] = "running" /\ pc[p] = l

Did(p, what) == trace' = [trace EXCEPT ![p] = Append(@, what)]

Goto(p, l) == pc' = [pc EXCEPT ![p] = l]

\* A panic of the main thread: the message goes to standard error and the
\* process ends with status 101.  Nothing else of the process changes.
PanicWith(p, cause, msg) ==
    /\ status' = [status EXCEPT ![p] = "panicked"]
    /\ code' = [code EXCEPT ![p] = PanicStatus]
    /\ err' = [err EXCEPT ![p] = Append(@, Line(msg))]
    /\ fault' = [fault EXCEPT ![p] = cause]
    /\ Goto(p, "dead")

UnwrapMsg == "called Result::unwrap() on an Err value"

\* ---------------------------------------------------------------- actions
\* Lines 5-6: read argv[1] and select the arm.
Dispatch(p) ==
    /\ At(p, "main")
    /\ Goto(p, Entry(Branch(arg[p])))
    /\ UNCHANGED <<arg, status, code, out, buf, err, i, child, ppid, fault,
                   trace, overflowChecks>>

\* Line 8: println!("stdout").  The newline flushes the line buffer.
PrintStdout(p) ==
    /\ At(p, "l8")
    /\ out' = [out EXCEPT ![p] = @ \o buf[p] \o <<Line("stdout")>>]
    /\ buf' = [buf EXCEPT ![p] = <<>>]
    /\ Did(p, "println stdout")
    /\ Goto(p, "l9")
    /\ UNCHANGED <<arg, status, code, err, i, child, ppid, fault,
                   overflowChecks>>

\* Mutant: the second line goes to standard output too.
PrintStderr_ToStdout(p) ==
    /\ At(p, "l9")
    /\ out' = [out EXCEPT ![p] = @ \o buf[p] \o <<Line("stderr")>>]
    /\ buf' = [buf EXCEPT ![p] = <<>>]
    /\ Did(p, "eprintln stderr")
    /\ Goto(p, "ret")
    /\ UNCHANGED <<arg, status, code, err, i, child, ppid, fault,
                   overflowChecks>>

\* Line 9: eprintln!("stderr").
PrintStderr(p) ==
    /\ At(p, "l9")
    /\ err' = [err EXCEPT ![p] = Append(@, Line("stderr"))]
    /\ Did(p, "eprintln stderr")
    /\ Goto(p, "ret")
    /\ UNCHANGED <<arg, status, code, out, buf, i, child, ppid, fault,
                   overflowChecks>>

\* Mutant: the arm ends the process with exit(1) instead of a panic.
Panic_Exit(p) ==
    /\ At(p, "l12")
    /\ status' = [status EXCEPT ![p] = "exited"]
    /\ code' = [code EXCEPT ![p] = ExitStatus(1)]
    /\ Goto(p, "dead")
    /\ Did(p, "panic")
    /\ UNCHANGED <<arg, out, buf, err, i, child, ppid, fault,
                   overflowChecks>>

\* Line 12: panic!("Oops!!!").
Panic(p) ==
    /\ At(p, "l12")
    /\ PanicWith(p, "panic!", "Oops!!!")
    /\ Did(p, "panic")
    /\ UNCHANGED <<arg, out, buf, i, child, ppid, overflowChecks>>

\* Line 50: main returns; the runtime flushes stdout and exits with 0.
MainReturn(p) ==
    /\ At(p, "ret")
    /\ status' = [status EXCEPT ![p] = "exited"]
    /\ code' = [code EXCEPT ![p] = ExitStatus(0)]
    /\ out' = [out EXCEPT ![p] = @ \o buf[p]]
    /\ buf' = [buf EXCEPT ![p] = <<>>]
    /\ Goto(p, "dead")
    /\ UNCHANGED <<arg, err, i, child, ppid, fault, trace, overflowChecks>>

\* Mutant: an Err of current_exe is ignored and the arm goes on.
CurrentExe_Ignore(p) ==
    /\ At(p, "l15")
    /\ Did(p, "current_exe")
    /\ Goto(p, "l18")
    /\ \/ UNCHANGED fault
       \/ fault' = [fault EXCEPT ![p] = "current_exe"]
    /\ UNCHANGED <<arg, status, code, out, buf, err, i, child, ppid,
                   overflowChecks>>

\* Line 15: std::env::current_exe().unwrap().
CurrentExe(p) ==
    /\ At(p, "l15")
    /\ Did(p, "current_exe")
    /\ \/ /\ Goto(p, "l18")
          /\ UNCHANGED <<status, code, err, fault>>
       \/ PanicWith(p, "current_exe", UnwrapMsg)
    /\ UNCHANGED <<arg, out, buf, i, child, ppid, overflowChecks>>

\* Lines 16-18: Command::new(exe), arg("sleep"), spawn().unwrap().  On Ok
\* the operating system has created a process running the same binary with
\* argv[1] = SpawnArg, under a process id it chose.
SpawnChild(p) ==
    /\ At(p, "l18")
    /\ Did(p, "spawn")
    /\ \/ \E c \in Pids :
            /\ status[c] = "unborn"
            /\ status' = [status EXCEPT ![c] = "running"]
            /\ arg' = [arg EXCEPT ![c] = SpawnArg]
            /\ ppid' = [ppid EXCEPT ![c] = p]
            /\ child' = [child EXCEPT ![p] = c]
            /\ Goto(p, "l19")
            /\ UNCHANGED <<code, err, fault>>
       \/ /\ PanicWith(p, "spawn", UnwrapMsg)
          /\ UNCHANGED <<arg, ppid, child>>
    /\ UNCHANGED <<out, buf, i, overflowChecks>>

\* Line 19: println!("pid = {}", child.id()).
PrintPid(p) ==
    /\ At(p, "l19")
    /\ out' = [out EXCEPT ![p] = @ \o buf[p] \o <<PidLine(child[p])>>]
    /\ buf' = [buf EXCEPT ![p] = <<>>]
    /\ Did(p, "println pid")
    /\ Goto(p, "l20")
    /\ UNCHANGED <<arg, status, code, err, i, child, ppid, fault,
                   overflowChecks>>

\* Mutant: the parent polls the child instead of blocking on it.
Wait_NoBlock(p) ==
    /\ At(p, "l20")
    /\ Did(p, "wait")
    /\ \/ /\ Goto(p, "ret")
          /\ UNCHANGED <<status, code, err, fault>>
       \/ PanicWith(p, "wait", UnwrapMsg)
    /\ UNCHANGED <<arg, out, buf, i, child, ppid, overflowChecks>>

\* Line 20: child.wait().unwrap().  Ok is returned once the child has
\* terminated, whatever its status; Err is returned without blocking.
Wait(p) ==
    /\ At(p, "l20")
    /\ Did(p, "wait")
    /\ \/ /\ status[child[p]] \in {"exited", "panicked"}
          /\ Goto(p, "ret")
          /\ UNCHANGED <<status, code, err, fault>>
       \/ PanicWith(p, "wait", UnwrapMsg)
    /\ UNCHANGED <<arg, out, buf, i, child, ppid, overflowChecks>>

\* Mutant: the sleep arm lacks its closing brace and runs into the loop.
Sleep_FallsThrough(p) ==
    /\ At(p, "l23")
    /\ Did(p, "sleep 10")
    /\ Goto(p, "l26")
    /\ UNCHANGED <<arg, status, code, out, buf, err, i, child, ppid, fault,
                   overflowChecks>>

\* Line 23: std::thread::sleep(Duration::from_secs(10)).  The process is
\* blocked at l23 until the action is taken.
Sleep(p) ==
    /\ At(p, "l23")
    /\ Did(p, "sleep 10")
    /\ Goto(p, "ret")
    /\ UNCHANGED <<arg, status, code, out, buf, err, i, child, ppid, fault,
                   overflowChecks>>

\* Mutant: the counter starts at 1.
LoopInit_One(p) ==
    /\ At(p, "l26")
    /\ i' = [i EXCEPT ![p] = 1]
    /\ Goto(p, "l28")
    /\ UNCHANGED <<arg, status, code, out, buf, err, child, ppid, fault,
                   trace, overflowChecks>>

\* Line 26: let mut i: i64 = 0.
LoopInit(p) ==
    /\ At(p, "l26")
    /\ i' = [i EXCEPT ![p] = 0]
    /\ Goto(p, "l28")
    /\ UNCHANGED <<arg, status, code, out, buf, err, child, ppid, fault,
                   trace, overflowChecks>>

\* Line 28: print!("\r{} ", i).  No newline: the text stays in the buffer.
LoopPrint(p) ==
    /\ At(p, "l28")
    /\ Len(out[p]) + Len(buf[p]) < MaxWrites
    /\ buf' = [buf EXCEPT ![p] = Append(@, Counter(i[p]))]
    /\ Did(p, "print")
    /\ Goto(p, "l29")
    /\ UNCHANGED <<arg, status, code, out, err, i, child, ppid, fault,
                   overflowChecks>>

\* Line 29: stdout().flush().unwrap().
LoopFlush(p) ==
    /\ At(p, "l29")
    /\ Did(p, "flush")
    /\ \/ /\ out' = [out EXCEPT ![p] = @ \o buf[p]]
          /\ buf' = [buf EXCEPT ![p] = <<>>]
          /\ Goto(p, "l30")
          /\ UNCHANGED <<status, code, err, fault>>
       \/ /\ PanicWith(p, "flush", UnwrapMsg)
          /\ UNCHANGED <<out, buf>>
    /\ UNCHANGED <<arg, i, child, ppid, overflowChecks>>

\* Line 30: std::thread::sleep(Duration::from_secs(1)).
LoopSleep(p) ==
    /\ At(p, "l30")
    /\ Did(p, "sleep 1")
    /\ Goto(p, "l31")
    /\ UNCHANGED <<arg, status, code, out, buf, err, i, child, ppid, fault,
                   overflowChecks>>

\* Mutant: the loop is left after the increment.
LoopInc_Break(p) ==
    /\ At(p, "l31")
    /\ Did(p, "inc")
    /\ IF i[p] = IntMax /\ overflowChecks
       THEN /\ PanicWith(p, "overflow", "attempt to add with overflow")
            /\ UNCHANGED i
       ELSE /\ i' = [i EXCEPT ![p] = WrapInc(@)]
            /\ Goto(p, "ret")
            /\ UNCHANGED <<status, code, err, fault>>
    /\ UNCHANGED <<arg, out, buf, child, ppid, overflowChecks>>

\* Line 31: i += 1, then back to the head of the loop.  At the largest
\* value the addition panics in a build with overflow checks and wraps in
\* a build without.
LoopInc(p) ==
    /\ At(p, "l31")
    /\ Did(p, "inc")
    /\ IF i[p] = IntMax /\ overflowChecks
       THEN /\ PanicWith(p, "overflow", "attempt to add with overflow")
            /\ UNCHANGED i
       ELSE /\ i' = [i EXCEPT ![p] = WrapInc(@)]
            /\ Goto(p, "l28")
            /\ UNCHANGED <<status, code, err, fault>>
    /\ UNCHANGED <<arg, out, buf, child, ppid, overflowChecks>>

\* Lines 35-43: the next call of the default arm.
CallExercise(p) ==
    /\ status[p] = "running"
    /\ \E k \in 1..Len(Exercises) :
          /\ pc[p] = Exercises[k]
          /\ Did(p, Exercises[k])
          /\ IF ExerciseReturns(Exercises[k])
             THEN /\ Goto(p, IF k < Len(Exercises)
                             THEN Exercises[k + 1] ELSE "ret")
                  /\ UNCHANGED <<status, code, err, fault>>
             ELSE PanicWith(p, Exercises[k], "exercise panicked")
    /\ UNCHANGED <<arg, out, buf, i, child, ppid, overflowChecks>>

\* Line 46: println!("No testcase was specified.").
PrintNoTestcase(p) ==
    /\ At(p, "l46")
    /\ out' = [out EXCEPT ![p] =
                  @ \o buf[p] \o <<Line("No testcase was specified.")>>]
    /\ buf' = [buf EXCEPT ![p] = <<>>]
    /\ Did(p, "println no testcase")
    /\ Goto(p, "l47")
    /\ UNCHANGED <<arg, status, code, err, i, child, ppid, fault,
                   overflowChecks>>

\* Mutant: the arm exits with status 0.
ExitNoTestcase_Zero(p) ==
    /\ At(p, "l47")
    /\ status' = [status EXCEPT ![p] = "exited"]
    /\ code' = [code EXCEPT ![p] = ExitStatus(0)]
    /\ out' = [out EXCEPT ![p] = @ \o buf[p]]
    /\ buf' = [buf EXCEPT ![p] = <<>>]
    /\ Did(p, "exit")
    /\ Goto(p, "dead")
    /\ UNCHANGED <<arg, err, i, child, ppid, fault, overflowChecks>>

\* Line 47: std::process::exit(-1).
ExitNoTestcase(p) ==
    /\ At(p, "l47")
    /\ status' = [status EXCEPT ![p] = "exited"]
    /\ code' = [code EXCEPT ![p] = ExitStatus(NoTestcaseExit)]
    /\ out' = [out EXCEPT ![p] = @ \o buf[p]]
    /\ buf' = [buf EXCEPT ![p] = <<>>]
    /\ Did(p, "exit")
    /\ Goto(p, "dead")
    /\ UNCHANGED <<arg, err, i, child, ppid, fault, overflowChecks>>

Step(p) ==
    \/ Dispatch(p)
    \/ PrintStdout(p)
    \/ PrintStderr(p)
    \/ Panic(p)
    \/ CurrentExe(p)
    \/ SpawnChild(p)
    \/ PrintPid(p)
    \/ Wait(p)
    \/ Sleep(p)
    \/ LoopInit(p)
    \/ LoopPrint(p)
    \/ LoopFlush(p)
    \/ LoopSleep(p)
    \/ LoopInc(p)
    \/ CallExercise(p)
    \/ PrintNoTestcase(p)
    \/ ExitNoTestcase(p)
    \/ MainReturn(p)

Next == \E p \in Pids : Step(p)

Spec == Init /\ [][Next]_vars

\* Every running process that can take a step eventually takes one: the
\* operating system schedules each process, sleeps end, a terminated child
\* is reaped.
FairSpec == Spec /\ \A p \in Pids : WF_vars(Step(p))

\* ================================================================ claims
Started(p) == status[p] # "unborn"
Terminated(p) == status[p] \in {"exited", "panicked"}
ExitedNormally(p) == status[p] = "exited" /\ code[p] = 0
IsPrefix(s, t) == Len(s) <= Len(t) /\ \A k \in 1..Len(s) : s[k] = t[k]
Range(s) == {s[k] : k \in 1..Len(s)}
PidPrinted(p) == \E k \in 1..Len(out[p]) : out[p][k].text = "pid = "
ChildOf(p) == child[p]
HasChild(p) == child[p] # NoPid

\* ----------------------------------------------------------------- C1
\* C1 as stated: in the spawn arm the child is started with argument
\* `sleep`, then the pid line is printed, then the child exits, then the
\* parent exits normally; in particular the child never terminates before
\* the pid line is printed.
C1_Original ==
    \A p \in Pids : (Started(p) /\ arg[p] = "spawn") =>
        /\ PidPrinted(p) =>
              (HasChild(p) /\ arg[ChildOf(p)] = "sleep"
                 /\ out[p] = <<PidLine(ChildOf(p))>>)
        /\ (HasChild(p) /\ Terminated(ChildOf(p))) => PidPrinted(p)
        /\ ExitedNormally(p) => (HasChild(p) /\ Terminated(ChildOf(p)))

\* C1 amended: the pid line `pid = <child id>` is printed only after the
\* spawn succeeded (child running the binary with argument `sleep`), and
\* the parent exits normally only after the pid line was printed and the
\* child has terminated; the child's exit and the printing of the pid line
\* are not ordered.
C1_SpawnOrder ==
    \A p \in Pids : (Started(p) /\ arg[p] = "spawn") =>
        /\ PidPrinted(p) =>
              (HasChild(p) /\ arg[ChildOf(p)] = "sleep"
                 /\ Started(ChildOf(p))
                 /\ out[p] = <<PidLine(ChildOf(p))>>)
        /\ ExitedNormally(p) =>
              (PidPrinted(p) /\ HasChild(p) /\ Terminated(ChildOf(p)))

C1_Witness ==
    \E p \in Pids :
        /\ arg[p] = "spawn" /\ ExitedNormally(p) /\ PidPrinted(p)
        /\ HasChild(p) /\ ExitedNormally(ChildOf(p))

\* ----------------------------------------------------------------- C2
Written(p) == out[p] \o buf[p]
Increasing(s) == \A k \in 1..(Len(s) - 1) : s[k].val < s[k + 1].val

\* C2 as stated: an inf_loop process never leaves the running state by its
\* own steps, and the counter values it prints are strictly increasing.
C2_Original ==
    \A p \in Pids : (Started(p) /\ arg[p] = "inf_loop") =>
        /\ status[p] = "running"
        /\ Increasing(Written(p))

\* C2 amended: an inf_loop process never exits normally; by its own steps
\* it ends only in a panic, caused by a failed flush of standard output or,
\* in a build with overflow checks, by the increment at the largest value;
\* each printed value is one more than the value before it, except that in
\* a build without overflow checks the value after the largest is the
\* smallest.
C2_LoopEnds ==
    \A p \in Pids : (Started(p) /\ arg[p] = "inf_loop") =>
        /\ status[p] # "exited"
        /\ status[p] = "panicked" =>
              /\ fault[p] \in {"flush", "overflow"}
              /\ fault[p] = "overflow" => (overflowChecks /\ i[p] = IntMax)
        /\ \A k \in 1..(Len(Written(p)) - 1) :
              IF Written(p)[k].val = IntMax
              THEN ~overflowChecks /\ Written(p)[k + 1].val = IntMin
              ELSE Written(p)[k + 1].val = Written(p)[k].val + 1

C2_Witness ==
    \E p \in Pids :
        /\ arg[p] = "inf_loop" /\ status[p] = "running"
        /\ Len(out[p]) >= 3

\* ----------------------------------------------------------------- C3
C3_State ==
    \A p \in Pids : (Started(p) /\ arg[p] = "panic") =>
        /\ status[p] # "exited"
        /\ out[p] = <<>> /\ buf[p] = <<>>
        /\ ~HasChild(p) /\ \A c \in Pids : ppid[c] # p
        /\ IsPrefix(trace[p], <<"panic">>)
        /\ Terminated(p) =>
              /\ status[p] = "panicked"
              /\ code[p] = 101 /\ code[p] # 0
              /\ err[p] = <<Line("Oops!!!")>>
              /\ trace[p] = <<"panic">>

\* C3: a process invoked with `panic` always ends, abnormally, with the
\* message Oops!!! and a non-zero status; it never completes normally and
\* does nothing of another arm (no stdout, no child, no sleep) before.
C3_PanicAborts ==
    /\ []C3_State
    /\ \A p \in Pids :
          (Started(p) /\ arg[p] = "panic") ~> (status[p] = "panicked")

C3_Witness ==
    \E p \in Pids : arg[p] = "panic" /\ status[p] = "panicked"

\* ----------------------------------------------------------------- C4
C4_State ==
    \A p \in Pids : Started(p) =>
        IF arg[p] = NoArg
        THEN /\ status[p] # "panicked"
             /\ pc[p] \in {"l47", "dead"} =>
                   out[p] = <<Line("No testcase was specified.")>>
             /\ err[p] = <<>>
             /\ Terminated(p) =>
                   /\ code[p] = 255 /\ code[p] = (-1) % 256
                   /\ code[p] # 0
        ELSE status[p] = "exited" => (code[p] # 255 /\ code[p] = 0)

C5_State ==
    \A p \in Pids : (Started(p) /\ arg[p] = "stdio") =>
        /\ status[p] # "panicked"
        /\ IsPrefix(out[p], <<Line("stdout")>>)
        /\ IsPrefix(err[p], <<Line("stderr")>>)
        /\ buf[p] = <<>>
        /\ Terminated(p) =>
              /\ out[p] = <<Line("stdout")>>
              /\ err[p] = <<Line("stderr")>>
              /\ code[p] = 0

C6_SleepState ==
    \A p \in Pids : (Started(p) /\ arg[p] = "sleep") =>
        /\ status[p] # "panicked"
        /\ pc[p] = "l23" => status[p] = "running"
        /\ IsPrefix(trace[p], <<"sleep 10">>)
        /\ Terminated(p) => (code[p] = 0 /\ trace[p] = <<"sleep 10">>)

C6_SleepLive ==
    \A p \in Pids :
        (Started(p) /\ arg[p] = "sleep") ~> ExitedNormally(p)

C7_Selected(a) ==
    IF a \in {"stdio", "panic", "spawn", "sleep", "inf_loop"} THEN a
    ELSE IF a = NoArg THEN "none" ELSE "default"

C7_EffectsOf(b) ==
    CASE b = "stdio"    -> {"println stdout", "eprintln stderr"}
      [] b = "panic"    -> {"panic"}
      [] b = "spawn"    -> {"current_exe", "spawn", "println pid", "wait"}
      [] b = "sleep"    -> {"sleep 10"}
      [] b = "inf_loop" -> {"print", "flush", "sleep 1", "inc"}
      [] b = "none"     -> {"println no testcase", "exit"}
      [] b = "default"  -> {"primitives", "enums", "structs", "arrays",
                            "boxes", "strings", "maps", "misc", "step_in"}

C7_Order ==
    <<"primitives", "enums", "structs", "arrays", "boxes", "strings",
      "maps", "misc", "step_in">>

C7_State ==
    \A p \in Pids : Started(p) =>
        /\ Range(trace[p]) \subseteq C7_EffectsOf(C7_Selected(arg[p]))
        /\ C7_Selected(arg[p]) = "default" =>
              /\ IsPrefix(trace[p], C7_Order)
              /\ status[p] # "panicked"
              /\ out[p] = <<>> /\ buf[p] = <<>> /\ err[p] = <<>>
              /\ ~HasChild(p)
              /\ Terminated(p) => (trace[p] = C7_Order /\ code[p] = 0)

Last(s) == s[Len(s)]

\* C8: in the spawn arm a failed call aborts the process at once with an
\* abnormal status: after a failed current_exe no child exists and no pid
\* line was printed; after a failed spawn no pid line was printed and no
\* wait was attempted; after a failed wait the parent has not exited with
\* status 0.  In each case the failed call is the last statement executed.
C8_SpawnFailures ==
    \A p \in Pids : (Started(p) /\ arg[p] = "spawn") =>
        /\ fault[p] # "none" =>
              /\ status[p] = "panicked" /\ code[p] # 0
              /\ Last(trace[p]) = fault[p]
              /\ Cardinality({k \in 1..Len(trace[p]) :
                                 trace[p][k] = fault[p]}) = 1
        /\ fault[p] = "current_exe" =>
              /\ ~HasChild(p) /\ \A c \in Pids : ppid[c] # p
              /\ ~PidPrinted(p) /\ out[p] = <<>>
              /\ trace[p] = <<"current_exe">>
        /\ fault[p] = "spawn" =>
              /\ ~HasChild(p) /\ \A c \in Pids : ppid[c] # p
              /\ ~PidPrinted(p) /\ out[p] = <<>>
              /\ "wait" \notin Range(trace[p])
        /\ fault[p] = "wait" =>
              /\ ~ExitedNormally(p)
              /\ trace[p] = <<"current_exe", "spawn", "println pid", "wait">>
        /\ status[p] = "panicked" =>
              fault[p] \in {"current_exe", "spawn", "wait"}

C8_Witness ==
    \E p \in Pids :
        /\ arg[p] = "spawn" /\ fault[p] = "wait" /\ status[p] = "panicked"
        /\ HasChild(p) /\ PidPrinted(p)

C8_WitnessExe ==
    \E p \in Pids : arg[p] = "spawn" /\ fault[p] = "current_exe"

C8_WitnessSpawn ==
    \E p \in Pids : arg[p] = "spawn" /\ fault[p] = "spawn"

\* ----------------------------------------------------------------- C9
Created == {p \in Pids : Started(p)}
ChildrenOf(p) == {c \in Pids : ppid[c] = p}

\* C9: one invocation creates at most two processes: only a process
\* invoked with `spawn` has a child, it has at most one, the child runs
\* with `sleep` and has no child of its own.
C9_OneChild ==
    /\ Cardinality(Created) <= 2
    /\ \A p \in Pids :
          /\ Cardinality(ChildrenOf(p)) <= 1
          /\ (ChildrenOf(p) # {} \/ HasChild(p)) =>
                (arg[p] = "spawn" /\ ChildrenOf(p) = {ChildOf(p)})
          /\ ppid[p] # NoPid =>
                /\ Started(p) /\ arg[p] = "sleep"
                /\ ppid[ppid[p]] = NoPid
                /\ ChildrenOf(p) = {} /\ ~HasChild(p)
          /\ (Started(p) /\ p # Root) => ppid[p] # NoPid

C9_Witness ==
    \E p \in Pids :
        /\ Cardinality(Created) = 2 /\ ppid[p] = Root
        /\ Terminated(p) /\ Terminated(Root)

\* ---------------------------------------------------------------- C10
C10_Cycle == <<"print", "flush", "sleep 1", "inc">>
CountOf(s, x) == Cardinality({k \in 1..Len(s) : s[k] = x})

\* C10: in the inf_loop arm the iterations run print, flush, pause,
\* increment in this order; the k-th value written, counting from 0, is k
\* for every k the counter can hold; a value is flushed to standard output
\* before the pause that follows it; and the increment at the largest
\* value yields no larger value: the process panics, or the next value is
\* the smallest.
C10_Counter ==
    \A p \in Pids : (Started(p) /\ arg[p] = "inf_loop") =>
        /\ i[p] \in IntMin..IntMax
        /\ \A k \in 1..Len(trace[p]) :
              trace[p][k] = C10_Cycle[((k - 1) % 4) + 1]
        /\ \A k \in 1..Len(Written(p)) :
              /\ Written(p)[k].kind = "counter"
              /\ (k - 1 <= IntMax) => Written(p)[k].val = k - 1
        /\ Len(Written(p)) = CountOf(trace[p], "print")
        /\ Len(out[p]) >= CountOf(trace[p], "sleep 1")
        /\ pc[p] \in {"l30", "l31", "l28"} => buf[p] = <<>>
        /\ (pc[p] = "l28" /\ Len(Written(p)) <= IntMax) =>
              i[p] = Len(Written(p))
        /\ \A k \in 1..(Len(Written(p)) - 1) :
              Written(p)[k].val = IntMax =>
                  (~overflowChecks /\ Written(p)[k + 1].val = IntMin)
        /\ fault[p] = "overflow" =>
              (overflowChecks /\ i[p] = IntMax
                 /\ Written(p)[Len(Written(p))].val = IntMax)

C10_Witness ==
    \E p \in Pids :
        /\ arg[p] = "inf_loop"
        /\ Len(out[p]) > IntMax + 1
        /\ out[p][IntMax + 2].val = IntMin

C10_WitnessPanic ==
    \E p \in Pids : arg[p] = "inf_loop" /\ fault[p] = "overflow"
====
